---- MODULE Spec2Model ----
(***************************************************************************)
(* Model of src/vmm/src/devices/mod.rs: the virtio-over-MMIO device        *)
(* integration layer (MmioConfig, Env, CommonConfig and its two-phase      *)
(* activation, SingleFdSignalQueue).                                       *)
(*                                                                         *)
(* Spec     the activation protocol of one CommonConfig, interleaved with  *)
(*          the guest (doorbell writes, queue programming) and the event   *)
(*          manager's loop.                                                *)
(* SpecEnv  Env::register_mmio_device / Env::insert_cmdline_str on one bus *)
(*          and one kernel command line.                                   *)
(* SpecLive Spec with an event loop and a caller that keep running.        *)
(* SpecNew  MmioConfig::new on valid and invalid ranges.                   *)
(* SpecSignal  SingleFdSignalQueue::signal_used_queue called through       *)
(*          several clones that share the irqfd and the interrupt status.  *)
(***************************************************************************)
EXTENDS Integers, Sequences, FiniteSets, TLC

\* ---------------------------------------------------------------- bounds
\* virtio.queues.len() ranges over 0..MaxQueues.
MaxQueues == 2
\* EventFd::new is called at most MaxFds times in one behaviour.
MaxFds == 2
\* At most MaxHandlers handlers are sent to the event manager in one behaviour.
MaxHandlers == 2
\* An eventfd counter saturates at MaxCounter in the model.
MaxCounter == 1
\* Addresses are AddrBits wide in the model (u64 in the code).
AddrBits == 21

\* ------------------------------------------------------- program constants
VIRTIO_MMIO_QUEUE_NOTIFY_OFFSET == 80

AddrSpace == 2 ^ AddrBits

\* ------------------------------------------------------------- variables
VARIABLES
    \* CommonConfig
    mmio,               \* CommonConfig.mmio : MmioConfig
    numQueues,          \* CommonConfig.virtio.queues.len()
    queuesValid,        \* what CommonConfig.virtio.queues_valid() returns
    device_activated,   \* CommonConfig.virtio.device_activated
    \* the thread that owns the device
    pc,                 \* "idle" | "blocked" (inside call_blocking)
    lastOp,             \* the last call that returned
    lastResult,         \* what it returned
    ioevents,           \* the Vec<EventFd> the last prepare_activate returned
    inOrder,            \* every finalize_activate so far was called right
                        \* after a prepare_activate that returned Ok
    \* the kernel's side of vm_fd
    nextFd,             \* eventfds created so far
    ioeventfds,         \* registered ioeventfds: [addr, datamatch, fd]
    counter,            \* eventfd counters
    \* the event manager
    mgrAlive,           \* the EventManager (the endpoint's receiving end) exists
    handlers,           \* handlers[h]: the eventfds handler h polls
    channel,            \* closures sent through the RemoteEndpoint, not yet
                        \* run, each named by the handler it registers
    reply,              \* what the one-shot result channel holds
    subscribers,        \* the handlers add_subscriber has registered
    delivered,          \* the handlers the loop ran for a doorbell
    \* Env
    bus,                \* mmio_mgr: the registered [range, device]
    cmdline,            \* kernel_cmdline, a sequence of characters
    envCalls,           \* Env calls made so far; the device object handed to
                        \* the n-th call is device n
    envOp,              \* the last Env call
    envResult,          \* what it returned
    \* MmioConfig::new
    newArgs,            \* the arguments of the last MmioConfig::new
    newResult,          \* what it returned
    constructed,        \* the MmioConfig values constructed so far
    \* SingleFdSignalQueue
    interrupt_status,   \* the shared AtomicU8
    irqfd,              \* the increments the shared irqfd has received
    sigDone,            \* sigDone[c]: the statements of signal_used_queue
                        \* the call in progress on clone c has executed
    sigStarted,         \* signal_used_queue calls begun
    sigCalls            \* signal_used_queue calls returned

vars == <<mmio, numQueues, queuesValid, device_activated, pc, lastOp, lastResult,
          ioevents, inOrder, nextFd, ioeventfds, counter, mgrAlive, handlers,
          channel, reply, subscribers, delivered, bus, cmdline, envCalls, envOp,
          envResult, newArgs, newResult, constructed, interrupt_status, irqfd,
          sigDone, sigStarted, sigCalls>>

deviceVars == <<mmio, numQueues>>
kernelVars == <<nextFd, ioeventfds, counter>>
mgrVars == <<mgrAlive, handlers, channel, reply, subscribers, delivered>>
envVars == <<bus, cmdline, envCalls, envOp, envResult>>
configVars == <<mmio, numQueues, queuesValid, device_activated>>
callerVars == <<pc, lastOp, lastResult, ioevents, inOrder>>
newVars == <<newArgs, newResult, constructed>>
signalVars == <<interrupt_status, irqfd, sigDone, sigStarted, sigCalls>>

Range(s) == {s[k] : k \in 1..Len(s)}

\* ------------------------------------------------------------ MmioConfig
\* vm_device's MmioRange::new as called by MmioConfig::new: a zero-length range
\* is invalid, and so is one whose last byte lies beyond the address space.
MmioRangeNew(base, size) ==
    IF size = 0 \/ base + (size - 1) >= AddrSpace
    THEN [ok |-> FALSE]
    ELSE [ok |-> TRUE, range |-> [base |-> base, size |-> size]]

\* Mutant: a range that runs past the end of the address space is reported as
\* Overflow.
MmioConfigNewOverflow(base, size, gsi) ==
    LET r == MmioRangeNew(base, size)
    IN  IF r.ok
        THEN [ok |-> TRUE, cfg |-> [range |-> r.range, gsi |-> gsi]]
        ELSE [ok |-> FALSE, err |-> (IF size = 0 THEN "Bus" ELSE "Overflow")]

\* MmioConfig::new(base, size, gsi)
MmioConfigNew(base, size, gsi) ==
    LET r == MmioRangeNew(base, size)
    IN  IF r.ok
        THEN [ok |-> TRUE, cfg |-> [range |-> r.range, gsi |-> gsi]]
        ELSE [ok |-> FALSE, err |-> "Bus"]

\* The inputs MmioConfig::new is given.
Bases == {0, 4096, AddrSpace - 4096, AddrSpace - 1}
Sizes == {0, 1, 512, 4096, 1048576}
Gsis == {5, 6}

ValidConfigs ==
    {MmioConfigNew(b, s, g).cfg :
        <<b, s, g>> \in {t \in Bases \X Sizes \X Gsis :
                            MmioConfigNew(t[1], t[2], t[3]).ok}}

\* The windows handed to virtio-mmio devices: 4 KiB each (0x1000, as in
\* EnvMock), which holds the register block, the queue-notify register
\* included, above the first page, with interrupt line 5.
DeviceConfigs ==
    {c \in ValidConfigs : c.range.size = 4096 /\ c.range.base > 0 /\ c.gsi = 5}

\* At most MaxNewCalls calls of MmioConfig::new are made in one behaviour.
MaxNewCalls == 2

\* A call of MmioConfig::new(base, size, gsi), its result kept by the caller.
mmio_config_new(base, size, gsi) ==
    /\ Cardinality(constructed) < MaxNewCalls
    /\ newArgs' = <<base, size, gsi>>
    /\ LET r == MmioConfigNew(base, size, gsi)
       IN  /\ newResult' = IF r.ok THEN "Ok" ELSE r.err
           /\ constructed' = IF r.ok THEN constructed \cup {r.cfg} ELSE constructed
    /\ UNCHANGED <<configVars, callerVars, kernelVars, mgrVars, envVars, signalVars>>

\* -------------------------------------------------------- prepare_activate
\* Mutant: the device_activated check is missing.
PrepareCheckNoActivated(valid, activated) ==
    IF ~valid THEN "QueuesNotValid" ELSE "Ok"

\* Mutant: the queues_valid() check is missing.
PrepareCheckNoValid(valid, activated) ==
    IF activated THEN "AlreadyActivated" ELSE "Ok"

\* Mutant: device_activated is tested before queues_valid().
PrepareCheckFlagFirst(valid, activated) ==
    IF activated THEN "AlreadyActivated"
    ELSE IF ~valid THEN "QueuesNotValid"
    ELSE "Ok"

\* The two early returns of prepare_activate.
PrepareCheck(valid, activated) ==
    IF ~valid THEN "QueuesNotValid"
    ELSE IF activated THEN "AlreadyActivated"
    ELSE "Ok"

\* Mutant: the datamatch is off by one.
IoEventBindingOffByOne(base, i, fd) ==
    [addr |-> base + VIRTIO_MMIO_QUEUE_NOTIFY_OFFSET, datamatch |-> i + 1, fd |-> fd]

\* The ioeventfd registered for queue i: IoEventAddress::Mmio(base + 0x50),
\* datamatch u32::try_from(i).
IoEventBinding(base, i, fd) ==
    [addr |-> base + VIRTIO_MMIO_QUEUE_NOTIFY_OFFSET, datamatch |-> i, fd |-> fd]

\* Mutant: the eventfd is created but never registered with the VM.
RegisterIoeventSkipped(registered, binding, fails) ==
    [ok |-> ~fails, registered |-> registered]

\* vm_fd.register_ioevent: the kernel refuses a second ioeventfd for the same
\* (address, datamatch), and the ioctl may fail for its own reasons (fails).
RegisterIoevent(registered, binding, fails) ==
    IF fails \/ \E b \in registered :
                    b.addr = binding.addr /\ b.datamatch = binding.datamatch
    THEN [ok |-> FALSE, registered |-> registered]
    ELSE [ok |-> TRUE, registered |-> registered \cup {binding}]

\* The loop of prepare_activate from queue i on. st is the kernel's state and
\* the Vec built so far; failAt/failKind name the iteration and the call the
\* environment makes fail (failAt = n: none).
RECURSIVE PrepareLoop(_, _, _, _, _, _)
PrepareLoop(i, n, base, st, failAt, failKind) ==
    IF i >= n THEN [st EXCEPT !.result = "Ok"]
    ELSE IF failAt = i /\ failKind = "EventFd"
    THEN [st EXCEPT !.result = "EventFd", !.ioevents = <<>>]
    ELSE LET fd == st.nextFd + 1
             r == RegisterIoevent(st.ioeventfds, IoEventBinding(base, i, fd),
                                  failAt = i)
         IN  IF ~r.ok
             THEN [st EXCEPT !.nextFd = fd, !.result = "RegisterIoevent",
                             !.ioevents = <<>>]
             ELSE PrepareLoop(i + 1, n, base,
                              [nextFd |-> fd, ioeventfds |-> r.registered,
                               ioevents |-> Append(st.ioevents, fd),
                               result |-> "Ok"],
                              failAt, failKind)

\* Mutant: a failing iteration unregisters what the earlier ones registered.
prepare_activate_cleanup(failAt, failKind) ==
    /\ pc = "idle"
    /\ nextFd + numQueues <= MaxFds
    /\ LET chk == PrepareCheck(queuesValid, device_activated)
           st0 == [nextFd |-> nextFd, ioeventfds |-> ioeventfds,
                   ioevents |-> <<>>, result |-> "Ok"]
           st == IF chk = "Ok"
                 THEN PrepareLoop(0, numQueues, mmio.range.base, st0,
                                  failAt, failKind)
                 ELSE [st0 EXCEPT !.result = chk]
       IN  /\ nextFd' = st.nextFd
           /\ ioeventfds' = IF st.result = "Ok" THEN st.ioeventfds ELSE ioeventfds
           /\ ioevents' = st.ioevents
           /\ lastResult' = st.result
    /\ lastOp' = "prepare"
    /\ UNCHANGED <<deviceVars, queuesValid, device_activated, pc, inOrder,
                   counter, mgrVars, envVars, newVars, signalVars>>

\* Mutant: a successful prepare_activate marks the configuration.
prepare_activate_marking(failAt, failKind) ==
    /\ pc = "idle"
    /\ nextFd + numQueues <= MaxFds
    /\ LET chk == PrepareCheck(queuesValid, device_activated)
           st0 == [nextFd |-> nextFd, ioeventfds |-> ioeventfds,
                   ioevents |-> <<>>, result |-> "Ok"]
           st == IF chk = "Ok"
                 THEN PrepareLoop(0, numQueues, mmio.range.base, st0,
                                  failAt, failKind)
                 ELSE [st0 EXCEPT !.result = chk]
       IN  /\ nextFd' = st.nextFd
           /\ ioeventfds' = st.ioeventfds
           /\ ioevents' = st.ioevents
           /\ lastResult' = st.result
           /\ device_activated' = (device_activated \/ (chk = "Ok" /\ st.result = "Ok"))
    /\ lastOp' = "prepare"
    /\ UNCHANGED <<deviceVars, queuesValid, pc, inOrder,
                   counter, mgrVars, envVars, newVars, signalVars>>

\* CommonConfig::prepare_activate(&self)
prepare_activate(failAt, failKind) ==
    /\ pc = "idle"
    /\ nextFd + numQueues <= MaxFds
    /\ LET chk == PrepareCheck(queuesValid, device_activated)
           st0 == [nextFd |-> nextFd, ioeventfds |-> ioeventfds,
                   ioevents |-> <<>>, result |-> "Ok"]
           st == IF chk = "Ok"
                 THEN PrepareLoop(0, numQueues, mmio.range.base, st0,
                                  failAt, failKind)
                 ELSE [st0 EXCEPT !.result = chk]
       IN  /\ nextFd' = st.nextFd
           /\ ioeventfds' = st.ioeventfds
           /\ ioevents' = st.ioevents
           /\ lastResult' = st.result
    /\ lastOp' = "prepare"
    /\ UNCHANGED <<deviceVars, queuesValid, device_activated, pc, inOrder,
                   counter, mgrVars, envVars, newVars, signalVars>>

\* ------------------------------------------------------- finalize_activate
\* The closure |mgr| Ok(mgr.add_subscriber(handler)): the handler joins the
\* event manager's subscribers.
add_subscriber(subs, handler) == subs \cup {handler}

\* Mutant: the flag is set when the registration is requested.
FlagSetOnRequest(activated) == TRUE

\* virtio.device_activated while the closure is on its way to the event loop.
FlagWhileBlocked(activated) == activated

\* Mutant: the error of call_blocking is not propagated with `?`.
FlagSetWhateverTheAnswer(activated, answer) == TRUE

\* Mutant: a failed call clears the flag.
FlagClearedOnError(activated, answer) == (answer = "Ok")

\* virtio.device_activated after call_blocking(..).map_err(Error::Endpoint)?
\* and the assignment that follows it.
FlagAfterCall(activated, answer) ==
    IF answer = "Ok" THEN TRUE ELSE activated

\* What finalize_activate returns for the answer of call_blocking.
FinalizeResult(answer) == IF answer = "Ok" THEN "Ok" ELSE "Endpoint"

\* finalize_activate up to the point where call_blocking has sent the closure
\* (sendOk) or has failed to (the channel's receiver is gone, or the wake-up
\* write failed). The handler polls the eventfds the caller holds.
finalize_activate_call(sendOk) ==
    /\ pc = "idle"
    /\ Len(handlers) < MaxHandlers
    /\ inOrder' = (inOrder /\ lastOp = "prepare" /\ lastResult = "Ok")
    /\ IF mgrAlive /\ sendOk
       THEN /\ handlers' = Append(handlers, Range(ioevents))
            /\ channel' = Append(channel, Len(handlers) + 1)
            /\ pc' = "blocked"
            /\ device_activated' = FlagWhileBlocked(device_activated)
            /\ UNCHANGED <<lastOp, lastResult>>
       ELSE /\ device_activated' = FlagAfterCall(device_activated, "SendFailed")
            /\ lastOp' = "finalize"
            /\ lastResult' = FinalizeResult("SendFailed")
            /\ UNCHANGED <<handlers, channel, pc>>
    /\ UNCHANGED <<deviceVars, queuesValid, ioevents, kernelVars, mgrAlive,
                   reply, subscribers, delivered, envVars, newVars, signalVars>>

\* Mutant: the closure is sent without waiting for its result (fire instead
\* of call_blocking), and the call goes on as if it had been run.
finalize_activate_fire ==
    /\ pc = "blocked"
    /\ device_activated' = FlagAfterCall(device_activated, "Ok")
    /\ lastOp' = "finalize"
    /\ lastResult' = FinalizeResult("Ok")
    /\ pc' = "idle"
    /\ reply' = "none"
    /\ UNCHANGED <<deviceVars, queuesValid, ioevents, inOrder, kernelVars,
                   mgrAlive, handlers, channel, subscribers, delivered, envVars,
                   newVars, signalVars>>

\* finalize_activate from the point where call_blocking receives the answer.
finalize_activate_return ==
    /\ pc = "blocked"
    /\ reply # "none"
    /\ device_activated' = FlagAfterCall(device_activated, reply)
    /\ lastOp' = "finalize"
    /\ lastResult' = FinalizeResult(reply)
    /\ pc' = "idle"
    /\ reply' = "none"
    /\ UNCHANGED <<deviceVars, queuesValid, ioevents, inOrder, kernelVars,
                   mgrAlive, handlers, channel, subscribers, delivered, envVars, newVars, signalVars>>

\* ------------------------------------------------------- the event manager
\* The event loop runs the closure sent by finalize_activate:
\* |mgr| Ok(mgr.add_subscriber(handler)), and sends the result back.
run_closure ==
    /\ mgrAlive
    /\ channel # <<>>
    /\ subscribers' = add_subscriber(subscribers, Head(channel))
    /\ channel' = Tail(channel)
    /\ reply' = "Ok"
    /\ UNCHANGED <<configVars, callerVars, kernelVars, mgrAlive, handlers,
                   delivered, envVars, newVars, signalVars>>

\* Mutant: the loop also polls the handlers whose registration is still queued.
PolledWithQueued(subs, queued) == subs \cup Range(queued)

\* The handlers the event loop polls: its subscribers.
Polled(subs, queued) == subs

\* The event loop finds doorbell fd of a polled handler readable and runs the
\* handler, which reads the eventfd.
dispatch(id, fd) ==
    /\ mgrAlive
    /\ id \in Polled(subscribers, channel)
    /\ fd \in handlers[id]
    /\ counter[fd] > 0
    /\ counter' = [counter EXCEPT ![fd] = 0]
    /\ delivered' = delivered \cup {id}
    /\ UNCHANGED <<configVars, callerVars, nextFd, ioeventfds, mgrAlive,
                   handlers, channel, reply, subscribers, envVars, newVars, signalVars>>

\* The event manager goes away: closures it has not run are dropped, and a
\* caller blocked in call_blocking gets a receive error.
manager_drop ==
    /\ mgrAlive
    /\ mgrAlive' = FALSE
    /\ channel' = <<>>
    /\ reply' = IF channel # <<>> THEN "RecvFailed" ELSE reply
    /\ UNCHANGED <<configVars, callerVars, kernelVars, handlers, subscribers,
                   delivered, envVars, newVars, signalVars>>

\* ------------------------------------------------------------- the guest
\* The eventfds the kernel signals for a write of value v at address a.
Signalled(registered, a, v) ==
    {b.fd : b \in {x \in registered : x.addr = a /\ x.datamatch = v}}

\* The driver writes v at a.
guest_write(a, v) ==
    /\ \A fd \in Signalled(ioeventfds, a, v) : counter[fd] < MaxCounter
    /\ counter' = [fd \in DOMAIN counter |->
                      IF fd \in Signalled(ioeventfds, a, v)
                      THEN counter[fd] + 1 ELSE counter[fd]]
    /\ UNCHANGED <<configVars, callerVars, nextFd, ioeventfds, mgrVars, envVars, newVars, signalVars>>

\* The driver programs the queues (or resets them): queues_valid() changes.
\* With no queue at all, queues_valid() holds whatever the driver does.
guest_set_queues(valid) ==
    /\ numQueues > 0
    /\ queuesValid' = valid
    /\ UNCHANGED <<deviceVars, device_activated, callerVars, kernelVars, mgrVars,
                   envVars, newVars, signalVars>>

\* -------------------------------------------------------------------- Env
\* Bounds of the Env model.
\* Cmdline::new(capacity): the capacity the VMM gives the kernel command line.
CmdlineCapacity == 70
\* At most MaxEnvCalls calls are made on Env in one behaviour.
MaxEnvCalls == 3

\* The characters linux_loader's Cmdline accepts, ' ' to '~' (but for the
\* backquote, which a TLA+ string cannot hold and no input below contains).
PrintableAscii ==
    {
     " ", "!", "\"", "#", "$", "%", "&", "'", "(", ")", "*", "+", ",", "-",
     ".", "/", "0", "1", "2", "3", "4", "5", "6", "7", "8", "9", ":", ";",
     "<", "=", ">", "?", "@", "A", "B", "C", "D", "E", "F", "G", "H", "I",
     "J", "K", "L", "M", "N", "O", "P", "Q", "R", "S", "T", "U", "V", "W",
     "X", "Y", "Z", "[", "\\", "]", "^", "_", "a", "b", "c", "d", "e",
     "f", "g", "h", "i", "j", "k", "l", "m", "n", "o", "p", "q", "r", "s",
     "t", "u", "v", "w", "x", "y", "z", "{", "|", "}", "~"}

DecDigits == <<"0", "1", "2", "3", "4", "5", "6", "7", "8", "9">>
HexDigits == <<"0", "1", "2", "3", "4", "5", "6", "7", "8", "9",
               "a", "b", "c", "d", "e", "f">>

\* format!("{}", n)
RECURSIVE Dec(_)
Dec(n) == IF n < 10 THEN <<DecDigits[n + 1]>>
          ELSE Dec(n \div 10) \o <<DecDigits[(n % 10) + 1]>>

\* format!("{:x}", n)
RECURSIVE Hex(_)
Hex(n) == IF n < 16 THEN <<HexDigits[n + 1]>>
          ELSE Hex(n \div 16) \o <<HexDigits[(n % 16) + 1]>>

\* Cmdline's size formatting: the largest of G, M, K that divides the size,
\* or the plain number of bytes.
GuestUsizeToStr(size) ==
    IF size % 1073741824 = 0 THEN Dec(size \div 1073741824) \o <<"G">>
    ELSE IF size % 1048576 = 0 THEN Dec(size \div 1048576) \o <<"M">>
    ELSE IF size % 1024 = 0 THEN Dec(size \div 1024) \o <<"K">>
    ELSE Dec(size)

VirtioMmioDevicePrefix == <<"v", "i", "r", "t", "i", "o", "_", "m", "m", "i", "o", ".", "d", "e", "v", "i", "c", "e", "=">>

\* Mutant: a string that does not fit is cut to what fits, and the error is
\* still returned.
InsertStrTruncating(line, str) ==
    IF \E k \in 1..Len(str) : str[k] \notin PrintableAscii
    THEN [ok |-> FALSE, line |-> line]
    ELSE IF Len(line) + Len(str) + (IF line = <<>> THEN 0 ELSE 1) >= CmdlineCapacity
    THEN [ok |-> FALSE,
          line |-> SubSeq((IF line = <<>> THEN str ELSE line \o <<" ">> \o str),
                          1, CmdlineCapacity - 1)]
    ELSE [ok |-> TRUE,
          line |-> (IF line = <<>> THEN str ELSE line \o <<" ">> \o str)]

\* Cmdline::insert_str: the string must be printable ASCII and must fit, a
\* separating space included, below the capacity; it is then appended after
\* a space when the line is not empty.
InsertStr(line, str) ==
    IF \E k \in 1..Len(str) : str[k] \notin PrintableAscii
    THEN [ok |-> FALSE, line |-> line]
    ELSE IF Len(line) + Len(str) + (IF line = <<>> THEN 0 ELSE 1) >= CmdlineCapacity
    THEN [ok |-> FALSE, line |-> line]
    ELSE [ok |-> TRUE,
          line |-> (IF line = <<>> THEN str ELSE line \o <<" ">> \o str)]

\* Cmdline::add_virtio_mmio_device(size, baseaddr, irq, None)
AddVirtioMmioDevice(line, size, baseaddr, irq) ==
    IF size = 0 THEN [ok |-> FALSE, line |-> line]
    ELSE InsertStr(line,
                   VirtioMmioDevicePrefix \o GuestUsizeToStr(size) \o <<"@", "0", "x">>
                       \o Hex(baseaddr) \o <<":">> \o Dec(irq))

\* Mutant: the size and the base address are passed in each other's place.
CmdlineArgsSwapped(cfg) ==
    [size |-> cfg.range.base, baseaddr |-> cfg.range.size, irq |-> cfg.gsi]

\* The arguments register_mmio_device gives add_virtio_mmio_device.
CmdlineArgs(cfg) ==
    [size |-> cfg.range.size, baseaddr |-> cfg.range.base, irq |-> cfg.gsi]

Last(range) == range.base + (range.size - 1)

Overlaps(r1, r2) == ~(Last(r1) < r2.base \/ Last(r2) < r1.base)

\* MmioManager::register_mmio: a range overlapping a registered one is refused.
RegisterMmio(b, range, device) ==
    IF \E e \in b : Overlaps(e.range, range)
    THEN [ok |-> FALSE, bus |-> b]
    ELSE [ok |-> TRUE, bus |-> b \cup {[range |-> range, device |-> device]}]

\* MmioManager::mmio_device(addr): the entries whose range holds addr (none or one).
MmioDevice(b, addr) ==
    {e \in b : e.range.base <= addr /\ addr <= Last(e.range)}

\* Mutant: the bus registration is undone when the command-line append fails.
RegisterRolledBack(b, line, cfg, device) ==
    LET r == RegisterMmio(b, cfg.range, device)
        a == CmdlineArgs(cfg)
        c == AddVirtioMmioDevice(line, a.size, a.baseaddr, a.irq)
    IN  IF ~r.ok THEN [result |-> "Bus", bus |-> b, line |-> line]
        ELSE IF ~c.ok THEN [result |-> "Cmdline", bus |-> b, line |-> c.line]
        ELSE [result |-> "Ok", bus |-> r.bus, line |-> c.line]

\* Mutant: the fragment is appended before the bus is asked.
AppendThenRegister(b, line, cfg, device) ==
    LET a == CmdlineArgs(cfg)
        c == AddVirtioMmioDevice(line, a.size, a.baseaddr, a.irq)
        r == RegisterMmio(b, cfg.range, device)
    IN  IF ~c.ok THEN [result |-> "Cmdline", bus |-> b, line |-> c.line]
        ELSE IF ~r.ok THEN [result |-> "Bus", bus |-> b, line |-> c.line]
        ELSE [result |-> "Ok", bus |-> r.bus, line |-> c.line]

\* The body of register_mmio_device: register_mmio(..).map_err(Error::Bus)?,
\* then add_virtio_mmio_device(..).map_err(Error::Cmdline)?, then Ok(()).
\* Nothing is undone on the way out.
RegisterMmioDevice(b, line, cfg, device) ==
    LET r == RegisterMmio(b, cfg.range, device)
        a == CmdlineArgs(cfg)
        c == AddVirtioMmioDevice(line, a.size, a.baseaddr, a.irq)
    IN  IF ~r.ok THEN [result |-> "Bus", bus |-> b, line |-> line]
        ELSE IF ~c.ok THEN [result |-> "Cmdline", bus |-> r.bus, line |-> c.line]
        ELSE [result |-> "Ok", bus |-> r.bus, line |-> c.line]

\* Env::register_mmio_device(device), on an Env whose mmio_cfg is cfg.
register_mmio_device(cfg) ==
    /\ envCalls < MaxEnvCalls
    /\ envCalls' = envCalls + 1
    /\ envOp' = "register_mmio_device"
    /\ LET r == RegisterMmioDevice(bus, cmdline, cfg, envCalls + 1)
       IN  /\ bus' = r.bus
           /\ cmdline' = r.line
           /\ envResult' = r.result
    /\ UNCHANGED <<configVars, callerVars, kernelVars, mgrVars, newVars,
                   signalVars>>

\* The strings insert_cmdline_str is given.
Texts == {<<"e", "n", "d", "i", "n", "g", "_", "s", "t", "r", "i", "n", "g">>,
          <<"x">>,
          <<>>,
          <<"a", "\n">>}

\* Env::insert_cmdline_str(t)
insert_cmdline_str(t) ==
    /\ envCalls < MaxEnvCalls
    /\ envCalls' = envCalls + 1
    /\ envOp' = "insert_cmdline_str"
    /\ LET c == InsertStr(cmdline, t)
       IN  /\ cmdline' = c.line
           /\ envResult' = IF c.ok THEN "Ok" ELSE "Cmdline"
    /\ UNCHANGED <<bus, configVars, callerVars, kernelVars, mgrVars, newVars,
                   signalVars>>

\* ---------------------------------------------------- SingleFdSignalQueue
\* The SingleFdSignalQueue values that share one irqfd and one
\* interrupt_status are 1..MaxClones, each used by one thread.
MaxClones == 3
\* At most MaxSignals calls of signal_used_queue are begun in one behaviour.
MaxSignals == 6

Clones == 1..MaxClones

\* a | b and a & !b on u8
RECURSIVE BitOr(_, _)
BitOr(a, b) ==
    IF a = 0 THEN b
    ELSE IF b = 0 THEN a
    ELSE (IF a % 2 = 1 \/ b % 2 = 1 THEN 1 ELSE 0) + 2 * BitOr(a \div 2, b \div 2)

RECURSIVE BitAndNot(_, _)
BitAndNot(a, b) ==
    IF a = 0 THEN 0
    ELSE (IF a % 2 = 1 /\ b % 2 = 0 THEN 1 ELSE 0) + 2 * BitAndNot(a \div 2, b \div 2)

\* Mutant: the status is stored, not ORed.
FetchStore(status, bits) == bits

\* interrupt_status.fetch_or(bits, Ordering::SeqCst): what the register holds
\* afterwards.
FetchOr(status, bits) == BitOr(status, bits) % 256

\* irqfd.write(v): the eventfd's counter is increased by v.
IrqfdWrite(count, v) == count + v

\* Mutant: the interrupt is raised before the status bit is set.
SignalUsedQueueWriteFirst == <<"write", "fetch_or">>

\* The statements of signal_used_queue, in the order of the code.
SignalUsedQueueBody == <<"fetch_or", "write">>

\* The thread using clone c runs the next statement of
\* signal_used_queue(index): the first one of a new call when none is in
\* progress, and the call returns after the last one. index is not read.
signal_used_queue(c, index) ==
    LET stmt == SignalUsedQueueBody[Len(sigDone[c]) + 1]
        last == Len(sigDone[c]) + 1 = Len(SignalUsedQueueBody)
    IN  /\ sigDone[c] = <<>> => sigStarted < MaxSignals
        /\ sigStarted' = IF sigDone[c] = <<>> THEN sigStarted + 1 ELSE sigStarted
        /\ interrupt_status' = IF stmt = "fetch_or"
                               THEN FetchOr(interrupt_status, 1)
                               ELSE interrupt_status
        /\ irqfd' = IF stmt = "write" THEN IrqfdWrite(irqfd, 1) ELSE irqfd
        /\ sigDone' = [sigDone EXCEPT ![c] = IF last THEN <<>> ELSE Append(@, stmt)]
        /\ sigCalls' = IF last THEN sigCalls + 1 ELSE sigCalls
        /\ UNCHANGED <<configVars, callerVars, kernelVars, mgrVars, envVars, newVars>>

\* Another holder of interrupt_status (the device's register block) raises
\* the configuration-change bit.
config_interrupt ==
    /\ interrupt_status' = BitOr(interrupt_status, 2) % 256
    /\ UNCHANGED <<irqfd, sigDone, sigStarted, sigCalls>>
    /\ UNCHANGED <<configVars, callerVars, kernelVars, mgrVars, envVars, newVars>>

\* The driver acknowledges the interrupts in mask: the register block clears
\* those bits of interrupt_status.
interrupt_ack(mask) ==
    /\ interrupt_status' = BitAndNot(interrupt_status, mask)
    /\ UNCHANGED <<irqfd, sigDone, sigStarted, sigCalls>>
    /\ UNCHANGED <<configVars, callerVars, kernelVars, mgrVars, envVars, newVars>>

\* ------------------------------------------------------------------ Spec
EnvInit ==
    /\ bus = {}
    /\ cmdline = <<>>
    /\ envCalls = 0
    /\ envOp = "none"
    /\ envResult = "none"

NewInit ==
    /\ newArgs = <<>>
    /\ newResult = "none"
    /\ constructed = {}

SignalInit ==
    /\ interrupt_status = 0
    /\ irqfd = 0
    /\ sigDone = [c \in Clones |-> <<>>]
    /\ sigStarted = 0
    /\ sigCalls = 0

Init ==
    /\ mmio \in DeviceConfigs
    /\ numQueues \in 0..MaxQueues
    /\ queuesValid = (numQueues = 0)
    /\ device_activated = FALSE
    /\ pc = "idle"
    /\ lastOp = "none"
    /\ lastResult = "none"
    /\ ioevents = <<>>
    /\ inOrder = TRUE
    /\ nextFd = 0
    /\ ioeventfds = {}
    /\ counter = [fd \in 1..MaxFds |-> 0]
    /\ mgrAlive = TRUE
    /\ channel = <<>>
    /\ reply = "none"
    /\ handlers = <<>>
    /\ subscribers = {}
    /\ delivered = {}
    /\ EnvInit
    /\ NewInit
    /\ SignalInit

Next ==
    \/ \E failAt \in 0..numQueues, failKind \in {"EventFd", "RegisterIoevent"} :
          prepare_activate(failAt, failKind)
    \/ \E sendOk \in BOOLEAN : finalize_activate_call(sendOk)
    \/ finalize_activate_return
    \/ run_closure
    \/ \E id \in 1..MaxHandlers, fd \in 1..MaxFds : dispatch(id, fd)
    \/ manager_drop
    \/ \E a \in {mmio.range.base, mmio.range.base + VIRTIO_MMIO_QUEUE_NOTIFY_OFFSET},
          v \in 0..MaxQueues : guest_write(a, v)
    \/ \E valid \in BOOLEAN : guest_set_queues(valid)

Spec == Init /\ [][Next]_vars

\* The activation protocol with an event loop that runs the closures it is
\* sent and a caller that resumes when its answer is there.
Fairness == WF_vars(run_closure) /\ WF_vars(finalize_activate_return)

SpecLive == Spec /\ Fairness

\* The Env operations on one bus and one command line; the device
\* configuration of the activation protocol stays as constructed.
InitEnv ==
    /\ mmio = CHOOSE c \in DeviceConfigs : \A d \in DeviceConfigs : c.range.base <= d.range.base
    /\ numQueues = 0
    /\ queuesValid = TRUE
    /\ device_activated = FALSE
    /\ pc = "idle"
    /\ lastOp = "none"
    /\ lastResult = "none"
    /\ ioevents = <<>>
    /\ inOrder = TRUE
    /\ nextFd = 0
    /\ ioeventfds = {}
    /\ counter = [fd \in 1..MaxFds |-> 0]
    /\ mgrAlive = TRUE
    /\ channel = <<>>
    /\ reply = "none"
    /\ handlers = <<>>
    /\ subscribers = {}
    /\ delivered = {}
    /\ EnvInit
    /\ NewInit
    /\ SignalInit

NextEnv ==
    \/ \E cfg \in ValidConfigs : register_mmio_device(cfg)
    \/ \E t \in Texts : insert_cmdline_str(t)

SpecEnv == InitEnv /\ [][NextEnv]_vars

\* MmioConfig::new on the inputs above.
NextNew ==
    \E base \in Bases, size \in Sizes, gsi \in Gsis : mmio_config_new(base, size, gsi)

SpecNew == InitEnv /\ [][NextNew]_vars

\* The threads that signal used queues, the device's register block and the
\* driver, around one interrupt_status and one irqfd.
NextSignal ==
    \/ \E c \in Clones, index \in 0..MaxQueues : signal_used_queue(c, index)
    \/ config_interrupt
    \/ \E mask \in {1, 2, 3} : interrupt_ack(mask)

SpecSignal == InitEnv /\ [][NextSignal]_vars

\* ======================================================================
\* Claims
\* ======================================================================
NotifyRegister == mmio.range.base + VIRTIO_MMIO_QUEUE_NOTIFY_OFFSET
FailKinds == {"EventFd", "RegisterIoevent"}

\* C1 (as claimed): over any sequence of operations on one configuration the
\* handler is registered with the event manager at most once, a finalize_activate
\* after activation being refused with AlreadyActivated. The code has no such
\* check in finalize_activate, so this is violated.
C1_RegisteredAtMostOnce ==
    /\ Cardinality(subscribers) <= 1
    /\ ~(device_activated /\ channel # <<>>)

\* C2 (as claimed): after activation every prepare_activate returns
\* AlreadyActivated. Violated when the queues are not valid.
C2_AlwaysAlreadyActivated ==
    (device_activated /\ lastOp = "prepare") => lastResult = "AlreadyActivated"

\* C2 (amended): a prepare_activate called on an activated configuration returns
\* AlreadyActivated when the queues are valid and QueuesNotValid when they are
\* not; either way it creates no eventfd, registers no ioeventfd and returns no
\* descriptor.
C2_ActivatedPrepareRefused ==
    [][\A f \in 0..MaxQueues, k \in FailKinds :
          (prepare_activate(f, k) /\ device_activated) =>
             /\ lastResult' = (IF queuesValid THEN "AlreadyActivated"
                               ELSE "QueuesNotValid")
             /\ nextFd' = nextFd
             /\ ioeventfds' = ioeventfds
             /\ ioevents' = <<>>]_vars

C2_Witness ==
    device_activated /\ lastOp = "prepare" /\ lastResult = "AlreadyActivated"

\* C3: whenever device_activated is true, a handler registration has been
\* completed by the event manager: the flag is not set when the registration is
\* requested nor while the first one is pending.
C3_ActivatedImpliesRegistered ==
    device_activated => subscribers # {}

C3_Witness ==
    device_activated /\ Cardinality(subscribers) = 1 /\ lastOp = "finalize" /\ lastResult = "Ok"

\* C4: prepare_activate on invalid queues returns QueuesNotValid, creates no
\* eventfd, registers no ioeventfd and leaves device_activated as it was.
C4_InvalidQueuesNoEffect ==
    [][\A f \in 0..MaxQueues, k \in FailKinds :
          (prepare_activate(f, k) /\ ~queuesValid) =>
             /\ lastResult' = "QueuesNotValid"
             /\ nextFd' = nextFd
             /\ ioeventfds' = ioeventfds
             /\ ioevents' = <<>>
             /\ device_activated' = device_activated]_vars

C4_Witness ==
    lastOp = "prepare" /\ lastResult = "QueuesNotValid" /\ ~queuesValid /\ nextFd = 0

\* C5: after a prepare_activate that returned Ok, the returned Vec holds one
\* eventfd per queue, in queue order, and a write of i to the notify register
\* (base + 0x50) signals exactly the i-th of them.
C5_DoorbellPerQueue ==
    (lastOp = "prepare" /\ lastResult = "Ok") =>
        /\ Len(ioevents) = numQueues
        /\ \A i \in 0..(numQueues - 1) :
              Signalled(ioeventfds, NotifyRegister, i) = {ioevents[i + 1]}
        /\ \A i, j \in 1..Len(ioevents) : i # j => ioevents[i] # ioevents[j]

\* A write of 1 has signalled the second descriptor and not the first.
C5_Witness ==
    /\ lastOp = "prepare" /\ lastResult = "Ok" /\ numQueues = 2
    /\ counter[ioevents[2]] = 1 /\ counter[ioevents[1]] = 0

\* The steps in which finalize_activate learns that call_blocking failed.
FinalizeFails ==
    \/ \E sendOk \in BOOLEAN : finalize_activate_call(sendOk) /\ ~(mgrAlive /\ sendOk)
    \/ finalize_activate_return /\ reply # "Ok"

\* C6: when call_blocking fails, finalize_activate returns Endpoint and leaves
\* device_activated as it was: a configuration that was not activated is still
\* not activated, and the caller may call again.
C6_EndpointErrorKeepsFlag ==
    [][FinalizeFails =>
          /\ lastOp' = "finalize" /\ lastResult' = "Endpoint"
          /\ device_activated' = device_activated
          /\ pc' = "idle"]_vars

C6_Witness ==
    lastOp = "finalize" /\ lastResult = "Endpoint" /\ ~device_activated /\ pc = "idle"

\* C7: device_activated starts false, never goes from true to false, and the
\* only step that changes it is the return of a finalize_activate whose
\* call_blocking succeeded.
C7_FlagMonotonic ==
    /\ ~device_activated
    /\ [][/\ device_activated => device_activated'
          /\ device_activated' # device_activated =>
                finalize_activate_return /\ reply = "Ok" /\ lastResult' = "Ok"]_vars

\* A failed finalize_activate after activation has left the flag true.
C7_Witness ==
    device_activated /\ lastOp = "finalize" /\ lastResult = "Endpoint"

AllDoorbellsBound ==
    \A i \in 0..(numQueues - 1) : Signalled(ioeventfds, NotifyRegister, i) # {}

HandlerRequested ==
    channel # <<>> \/ subscribers # {} \/ device_activated

\* C8 (as claimed): in no reachable state is a handler registered, or the flag
\* set, while no doorbell has been registered. Violated: finalize_activate does
\* not check that prepare_activate has run.
C8_NeverHandlerWithoutDoorbells ==
    (subscribers # {} \/ device_activated) => ioeventfds # {}

\* C8 (amended): as long as the caller calls finalize_activate only right after
\* a prepare_activate that returned Ok, the doorbells of all the queues are
\* registered before a handler registration is requested.
C8_InOrderDoorbellsFirst ==
    (inOrder /\ HandlerRequested) => AllDoorbellsBound

C8_Witness ==
    /\ inOrder /\ device_activated /\ numQueues = 2
    /\ Cardinality(ioeventfds) = 2

KSized(size) == size % 1024 = 0 /\ size % 1048576 # 0

ExpectedFragment(cfg) ==
    VirtioMmioDevicePrefix \o Dec(cfg.range.size \div 1024) \o <<"K", "@", "0", "x">>
        \o Hex(cfg.range.base) \o <<":">> \o Dec(cfg.gsi)

\* What C10 says of a successful register_mmio_device on an Env with cfg: the bus
\* resolves base to exactly cfg's range, and exactly the fragment has been
\* appended (after the separating space) to the command line.
RegisteredAsClaimed(cfg) ==
    /\ {e.range : e \in MmioDevice(bus', cfg.range.base)} = {cfg.range}
    /\ cmdline' = (IF cmdline = <<>> THEN <<>> ELSE cmdline \o <<" ">>)
                      \o ExpectedFragment(cfg)

DiscoveryFragment(cfg) ==
    VirtioMmioDevicePrefix \o GuestUsizeToStr(cfg.range.size) \o <<"@", "0", "x">>
        \o Hex(cfg.range.base) \o <<":">> \o Dec(cfg.gsi)

Contains(line, str) ==
    \E i \in 0..(Len(line) - Len(str)) : SubSeq(line, i + 1, i + Len(str)) = str

\* C11: when the command-line append of register_mmio_device fails, the call
\* returns Cmdline, the device it was given has been put on the bus by this
\* call and stays there (the bus resolves the base of its range to it), and the
\* command line is as it was, without a discovery fragment for it.
C11_AppendFailureKeepsBus ==
    [][\A cfg \in ValidConfigs :
          (register_mmio_device(cfg) /\ envResult' = "Cmdline") =>
              /\ MmioDevice(bus, cfg.range.base) = {}
              /\ MmioDevice(bus', cfg.range.base) =
                     {[range |-> cfg.range, device |-> envCalls + 1]}
              /\ cmdline' = cmdline
              /\ ~Contains(cmdline', DiscoveryFragment(cfg))]_vars

\* The last call put its device on the bus and returned Cmdline; the command
\* line names the devices registered before it only.
C11_Witness ==
    /\ envOp = "register_mmio_device" /\ envResult = "Cmdline"
    /\ \E e \in bus :
          /\ e.device = envCalls
          /\ \A g \in Gsis :
                ~Contains(cmdline, DiscoveryFragment([range |-> e.range, gsi |-> g]))
    /\ Contains(cmdline, VirtioMmioDevicePrefix)

\* C16: a successful insert_cmdline_str(t) leaves the command line equal to its
\* previous content, the separating space when that content is not empty, and
\* t: it ends with t and starts with what it was. A rejected one returns
\* Cmdline and leaves the command line as it was.
C16_InsertAppendsText ==
    [][\A t \in Texts :
          insert_cmdline_str(t) =>
              /\ envResult' \in {"Ok", "Cmdline"}
              /\ envResult' = "Ok" =>
                    /\ cmdline' = cmdline \o (IF cmdline = <<>> THEN <<>> ELSE <<" ">>) \o t
                    /\ SubSeq(cmdline', Len(cmdline') - Len(t) + 1, Len(cmdline')) = t
                    /\ SubSeq(cmdline', 1, Len(cmdline)) = cmdline
              /\ envResult' = "Cmdline" => cmdline' = cmdline]_vars

\* "ending_string" has been appended after a device's fragment, as in test_env.
C16_Witness ==
    /\ envOp = "insert_cmdline_str" /\ envResult = "Ok"
    /\ Len(cmdline) > 14
    /\ SubSeq(cmdline, Len(cmdline) - 13, Len(cmdline)) =
          <<" ", "e", "n", "d", "i", "n", "g", "_", "s", "t", "r", "i", "n", "g">>
    /\ SubSeq(cmdline, 1, Len(VirtioMmioDevicePrefix)) = VirtioMmioDevicePrefix

\* An insert_cmdline_str has been rejected on a command line that is not empty.
C16_WitnessRejected ==
    envOp = "insert_cmdline_str" /\ envResult = "Cmdline" /\ cmdline # <<>>

\* C19: when the range given to register_mmio_device conflicts with a
\* registered one, the call returns Bus, and whenever it returns Bus the command
\* line and the bus (what every address resolves to) are as they were.
C19_BusRejectionNoFragment ==
    [][\A cfg \in ValidConfigs :
          register_mmio_device(cfg) =>
              /\ (\E e \in bus : Overlaps(e.range, cfg.range)) => envResult' = "Bus"
              /\ envResult' = "Bus" =>
                    /\ \E e \in bus : Overlaps(e.range, cfg.range)
                    /\ cmdline' = cmdline
                    /\ bus' = bus
                    /\ \A e \in bus : MmioDevice(bus', e.range.base) = {e}]_vars

\* The second device was refused: the bus holds the first one alone and the
\* command line its fragment alone.
C19_Witness ==
    /\ envOp = "register_mmio_device" /\ envResult = "Bus" /\ envCalls = 2
    /\ \E e \in bus :
          /\ bus = {e} /\ e.device = 1
          /\ \E g \in Gsis : cmdline = DiscoveryFragment([range |-> e.range, gsi |-> g])

Quiescent == \A c \in Clones : sigDone[c] = <<>>

\* C12: each call of signal_used_queue, whatever its index, first ORs bit 0
\* into interrupt_status (bit 0 is set afterwards, the other bits are as they
\* were, the irqfd is not touched) and then adds exactly one to the irqfd
\* (interrupt_status is not touched); when no call is in progress the irqfd has
\* received as many increments as calls have returned.
C12_SignalSetsBitAndIncrements ==
    /\ [](Quiescent => (irqfd = sigCalls /\ sigCalls = sigStarted))
    /\ [][\A c \in Clones, index \in 0..MaxQueues :
            signal_used_queue(c, index) =>
               IF sigDone[c] = <<>>
               THEN /\ interrupt_status' % 2 = 1
                    /\ interrupt_status' \div 2 = interrupt_status \div 2
                    /\ irqfd' = irqfd
                    /\ sigCalls' = sigCalls
               ELSE /\ irqfd' = irqfd + 1
                    /\ interrupt_status' = interrupt_status
                    /\ sigCalls' = sigCalls + 1]_vars

\* Two calls have returned, one after the other is enough: two increments, bit
\* 0 set, and the configuration-change bit raised meanwhile still set.
C12_Witness ==
    Quiescent /\ sigCalls = 2 /\ irqfd = 2 /\ interrupt_status = 3

\* MmioConfig::new's arguments and what the claim and the code make of them.
NewBase == newArgs[1]
NewSize == newArgs[2]
NewGsi == newArgs[3]
NewConfig == [range |-> [base |-> NewBase, size |-> NewSize], gsi |-> NewGsi]

\* C13 (as claimed): MmioConfig::new fails with Bus when size = 0 and with
\* Overflow when base + size overflows the address space, and otherwise returns
\* exactly (base, size, gsi); every constructed value has size > 0 and
\* base + size within the address space. Violated: Overflow is never returned,
\* and a range that ends on the last address is accepted.
C13_BusOrOverflow ==
    /\ newArgs # <<>> =>
          /\ newResult = (IF NewSize = 0 THEN "Bus"
                          ELSE IF NewBase + NewSize >= AddrSpace THEN "Overflow"
                          ELSE "Ok")
          /\ newResult = "Ok" => NewConfig \in constructed
    /\ \A c \in constructed :
          c.range.size > 0 /\ c.range.base + c.range.size < AddrSpace

\* C13 (amended): MmioConfig::new fails with Bus when size = 0 and also when
\* the last address of the range, base + size - 1, is beyond the address space;
\* otherwise it returns exactly (base, size, gsi). Every constructed value has
\* size > 0 and its last address within the address space.
C13_BusWhenInvalid ==
    /\ newArgs # <<>> =>
          /\ newResult = (IF NewSize = 0 THEN "Bus"
                          ELSE IF NewBase + NewSize - 1 >= AddrSpace THEN "Bus"
                          ELSE "Ok")
          /\ newResult = "Ok" => NewConfig \in constructed
          /\ newResult # "Ok" => NewConfig \notin constructed
    /\ \A c \in constructed :
          c.range.size > 0 /\ c.range.base + c.range.size - 1 < AddrSpace

\* A range that runs past the last address has been refused with Bus after one
\* that ends on it has been constructed.
C13_Witness ==
    /\ newArgs = <<AddrSpace - 1, 512, 5>> /\ newResult = "Bus"
    /\ constructed = {[range |-> [base |-> AddrSpace - 4096, size |-> 4096], gsi |-> 6]}

\* C17: in every interleaving of the calls made through the clones, the irqfd
\* has received one increment for each call that has returned or has executed
\* its write, and a call adds to the irqfd only after it has executed its
\* fetch_or.
C17_ConcurrentSignals ==
    /\ [](irqfd = sigCalls
                   + Cardinality({c \in Clones : "write" \in Range(sigDone[c])}))
    /\ [](Quiescent => irqfd = sigStarted)
    /\ [][\A c \in Clones, index \in 0..MaxQueues :
            (signal_used_queue(c, index) /\ irqfd' # irqfd) =>
                "fetch_or" \in Range(sigDone[c])]_vars

\* Every clone is between its fetch_or and its write, after a call has
\* returned and the driver has acknowledged the interrupt.
C17_Witness ==
    /\ \A c \in Clones : sigDone[c] = <<"fetch_or">>
    /\ sigCalls = 1 /\ irqfd = 1 /\ interrupt_status = 0

\* The prepare_activate steps that enter the loop and are made to fail in it.
LoopEntered == queuesValid /\ ~device_activated

\* The doorbells registered by the step.
NewBindings == ioeventfds' \ ioeventfds

\* C14 (as claimed): a prepare_activate whose loop fails at a queue, in
\* EventFd::new or in register_ioevent, returns RegisterIoevent and no
\* descriptor, and removes no doorbell. Violated: a failing EventFd::new is
\* returned as EventFd.
C14_LoopFailureIsRegisterIoevent ==
    [][\A f \in 0..MaxQueues, k \in FailKinds :
          (prepare_activate(f, k) /\ LoopEntered /\ f < numQueues) =>
             /\ lastResult' = "RegisterIoevent"
             /\ ioevents' = <<>>
             /\ ioeventfds \subseteq ioeventfds']_vars

\* C14 (amended): a prepare_activate whose loop fails returns EventFd when
\* EventFd::new failed and RegisterIoevent when register_ioevent failed, and
\* no descriptor; the doorbells of the j queues before the failing one have
\* been registered by it and are still registered, as is every doorbell
\* registered before the call. On a VM without doorbells the failing queue is
\* the one whose call failed.
C14_LoopFailureKeepsBindings ==
    [][\A f \in 0..MaxQueues, k \in FailKinds :
          (prepare_activate(f, k) /\ LoopEntered) =>
             /\ f < numQueues => lastResult' \in FailKinds
             /\ lastResult' \in FailKinds =>
                   /\ ioevents' = <<>>
                   /\ ioeventfds \subseteq ioeventfds'
                   /\ Cardinality(NewBindings) < numQueues
                   /\ \A i \in 0..(Cardinality(NewBindings) - 1) :
                         \E b \in NewBindings :
                            b.addr = NotifyRegister /\ b.datamatch = i
                   /\ nextFd' = nextFd + Cardinality(NewBindings)
                                  + (IF lastResult' = "RegisterIoevent" THEN 1 ELSE 0)
                   /\ (ioeventfds = {} /\ f < numQueues) =>
                         lastResult' = k /\ Cardinality(NewBindings) = f]_vars

\* The second queue's EventFd::new failed: the first queue's doorbell is
\* registered, and a write of 0 to the notify register has signalled it.
C14_Witness ==
    /\ lastOp = "prepare" /\ lastResult = "EventFd" /\ ioevents = <<>>
    /\ numQueues = 2 /\ nextFd = 1
    /\ Signalled(ioeventfds, NotifyRegister, 0) = {1}
    /\ counter[1] = 1

\* The steps in which a finalize_activate returns to its caller.
FinalizeReturns ==
    \/ finalize_activate_return
    \/ \E sendOk \in BOOLEAN : finalize_activate_call(sendOk) /\ pc' = "idle"

\* The closure sent by the call in progress has been run by the event loop.
ClosureRan ==
    pc = "blocked" /\ Len(handlers) \in subscribers /\ Len(handlers) \notin Range(channel)

\* C15 (as claimed, its first sentence): finalize_activate returns only after
\* the event loop has run the registration closure. Violated: when the closure
\* cannot be sent, or the event manager goes away before running it,
\* finalize_activate returns Endpoint with the closure never run.
C15_ReturnsOnlyAfterClosure ==
    [][FinalizeReturns => ClosureRan]_vars

\* C15 (amended): finalize_activate returns Ok only after the event loop has
\* run its registration closure, and returns at all only then or when the
\* endpoint has failed (no send, or no event manager left); while it is
\* blocked device_activated is as it was when it was called; and with an event
\* loop and a caller that keep taking the steps they can take, every blocked
\* call returns.
C15_BlocksUntilClosureRan ==
    /\ [][(FinalizeReturns /\ lastResult' = "Ok") => ClosureRan]_vars
    /\ [][FinalizeReturns =>
            \/ ClosureRan
            \/ pc = "blocked" /\ ~mgrAlive
            \/ pc = "idle" /\ lastResult' = "Endpoint"]_vars
    /\ [][pc' = "blocked" => device_activated' = device_activated]_vars
    /\ (pc = "blocked") ~> (pc = "idle")

\* The caller is blocked, its closure not yet run, the flag still false.
C15_Witness ==
    /\ pc = "blocked" /\ reply = "none" /\ channel # <<>> /\ ~device_activated
    /\ lastOp = "prepare" /\ lastResult = "Ok" /\ numQueues > 0

\* C18: prepare_activate leaves device_activated, the queues and the
\* MmioConfig as they were, whatever it returns. A second prepare_activate
\* right after one that returned Ok, the queues still valid, therefore passes
\* both checks again and enters the loop: it creates a new eventfd and asks for
\* the doorbell of queue 0 at the same address, which the VM refuses as a
\* duplicate (RegisterIoevent), unless EventFd::new itself fails.
C18_PrepareLeavesConfig ==
    [][\A f \in 0..MaxQueues, k \in FailKinds :
          prepare_activate(f, k) =>
             /\ device_activated' = device_activated
             /\ mmio' = mmio /\ numQueues' = numQueues /\ queuesValid' = queuesValid
             /\ (lastOp = "prepare" /\ lastResult = "Ok" /\ queuesValid) =>
                   /\ lastResult' \notin {"QueuesNotValid", "AlreadyActivated"}
                   /\ numQueues = 0 => lastResult' = "Ok"
                   /\ (numQueues > 0 /\ ~(f = 0 /\ k = "EventFd")) =>
                         /\ nextFd' = nextFd + 1
                         /\ lastResult' = "RegisterIoevent"
                         /\ ioeventfds' = ioeventfds]_vars

\* A second prepare_activate after a successful one has created a second
\* eventfd and has been refused the doorbell the first one holds.
C18_Witness ==
    /\ lastOp = "prepare" /\ lastResult = "RegisterIoevent" /\ ~device_activated
    /\ numQueues = 1 /\ nextFd = 2
    /\ Signalled(ioeventfds, NotifyRegister, 0) = {1}

\* C20: prepare_activate tests queues_valid() first: with invalid queues it
\* returns QueuesNotValid whether the configuration is activated or not, and
\* AlreadyActivated is returned only with valid queues; when it returns either,
\* no eventfd has been created and no doorbell registered.
C20_ValidityCheckedFirst ==
    [][\A f \in 0..MaxQueues, k \in FailKinds :
          prepare_activate(f, k) =>
             /\ ~queuesValid => lastResult' = "QueuesNotValid"
             /\ lastResult' = "AlreadyActivated" => (queuesValid /\ device_activated)
             /\ lastResult' \in {"QueuesNotValid", "AlreadyActivated"} =>
                   /\ nextFd' = nextFd
                   /\ ioeventfds' = ioeventfds
                   /\ ioevents' = <<>>]_vars

\* An activated configuration with invalid queues was given QueuesNotValid.
C20_Witness ==
    /\ device_activated /\ ~queuesValid
    /\ lastOp = "prepare" /\ lastResult = "QueuesNotValid"

====
